---- MODULE Spec2Model ----
(***************************************************************************)
(* Model of src/offlineStorage.ts: the IndexedDB-backed food-entry store   *)
(* (openDatabase, saveFoodEntry, getFoodEntries) and its synchronisation   *)
(* pass (syncWithServer).                                                  *)
(*                                                                         *)
(* The object store 'foodEntries' is the set of committed records.  Every  *)
(* await of the source is a step boundary; code that runs between two      *)
(* awaits (an event handler with the microtasks it schedules) is one step. *)
(* IndexedDB serialises read-write transactions on one store, so a         *)
(* transaction is a step that sees and changes committed records only; the *)
(* add transaction of saveFoodEntry stays open from its request to its     *)
(* commit, and reads wait for it.                                          *)
(***************************************************************************)
EXTENDS Integers, Sequences, FiniteSets, TLC

\* ---------------------------------------------------------------- bounds
MaxIds == 2        \* record ids are 1..MaxIds
MaxDate == 1       \* dates (ms since epoch) are 0..MaxDate

Ids == 1..MaxIds
NoId == 0          \* FoodEntry.id absent (or empty): `!entry.id`
Dates == 0..MaxDate
NoDate == -1       \* dayStart / dayEnd not supplied
Users == {"u1", "u2"}
Names == {"Apple"}
Passes == {"p1", "p2"}   \* the syncWithServer invocations that can overlap

\* ---------------------------------------------------------------- types
\* interface FoodEntry as the caller passes it: id and synced are optional
EntryArgs ==
  [id : Ids \cup {NoId}, userId : Users, date : Dates, name : Names,
   synced : {"true", "false", "absent"}]

\* interface FoodEntry as the object store holds it
FoodEntry ==
  [id : Ids, userId : Users, date : Dates, name : Names, synced : BOOLEAN]

NoArg == [id |-> NoId, userId |-> "u1", date |-> 0, name |-> "Apple", synced |-> "absent"]
NoEntry == [id |-> NoId, userId |-> "u1", date |-> 0, name |-> "Apple", synced |-> FALSE]

VARIABLES
  store,      \* committed records of object store 'foodEntries'
  online,     \* navigator.onLine
  facility,   \* 'serviceWorker' in navigator && 'SyncManager' in window
  reg,        \* background-sync tag 'foodEntrySync': "none", "waiting", "registered"
  ins,        \* the saveFoodEntry call in progress (or the last one)
  qry,        \* the getFoodEntries call in progress (or the last one)
  pass        \* the syncWithServer invocations

vars == <<store, online, facility, reg, ins, qry, pass>>

\* ---------------------------------------------------------------- helpers
HasId(s, id) == \E r \in s : r.id = id

ById(s, id) == CHOOSE r \in s : r.id = id

Min(S) == CHOOSE x \in S : \A y \in S : x <= y

\* index order of IDBIndex.getAll: by index key, then by primary key (id)
RECURSIVE SortById(_)
SortById(s) ==
  IF s = {} THEN <<>>
  ELSE LET r == ById(s, Min({x.id : x \in s}))
       IN <<r>> \o SortById(s \ {r})

\* the add transaction of saveFoodEntry is open: other transactions wait
WriteTxActive == ins.pc \in {"adding", "requested"}

InsIdle == [pc |-> "idle", arg |-> NoArg, entry |-> NoEntry, outcome |-> "none",
            db |-> "none", conn |-> "none", trig |-> {}]

QryIdle == [pc |-> "idle", userId |-> "u1", dayStart |-> NoDate, dayEnd |-> NoDate,
            outcome |-> "none", result |-> {}, db |-> "none"]

PassIdle == [pc |-> "idle", db |-> "none", snap |-> <<>>,
             log |-> <<>>, res |-> "none"]

Init ==
  /\ store = {}
  /\ online \in BOOLEAN
  /\ facility = FALSE
  /\ reg = "none"
  /\ ins = InsIdle
  /\ qry = QryIdle
  /\ pass = [p \in Passes |-> PassIdle]

\* ---------------------------------------------------------------- saveFoodEntry
\* (mutant: line 56 missing, the caller's synced value is kept)
StoredEntry_KeepSynced(arg, gen) ==
  [id |-> IF arg.id = NoId THEN gen ELSE arg.id,
   userId |-> arg.userId, date |-> arg.date, name |-> arg.name,
   synced |-> (arg.synced = "true")]

\* lines 50-56: the id is generated when absent, synced is forced to false
StoredEntry(arg, gen) ==
  [id |-> IF arg.id = NoId THEN gen ELSE arg.id,
   userId |-> arg.userId, date |-> arg.date, name |-> arg.name,
   synced |-> FALSE]

\* IDBObjectStore.add: a new record; the caller checks the key is free
AddEntry(s, e) == s \cup {e}

\* (mutant: the store is cleared before the put)
PutEntry_Clear(s, e) == {e}

\* IDBObjectStore.put: insert, or replace the record of the same key
PutEntry(s, e) == {r \in s : r.id # e.id} \cup {e}

FreePasses == {p \in Passes : pass[p].pc \in {"idle", "done"}}

\* the slot a new invocation takes
FirstFree == CHOOSE p \in FreePasses : TRUE

\* (mutant: line 131 missing, no connectivity check)
StartedPass_NoCheck == [PassIdle EXCEPT !.pc = "opening"]

\* syncWithServer() up to its first await: the connectivity check, then
\* indexedDB.open is requested
StartedPass ==
  IF online
  THEN [PassIdle EXCEPT !.pc = "opening"]
  ELSE [PassIdle EXCEPT !.pc = "done", !.res = "offline"]

\* saveFoodEntry(entry) is called: await openDatabase()
SaveCall(arg) ==
  /\ ins.pc \in {"idle", "committed", "aborted", "failed"}
  /\ ins' = [InsIdle EXCEPT !.pc = "opening", !.arg = arg]
  /\ UNCHANGED <<store, online, facility, reg, qry, pass>>

\* openDatabase rejects: the catch logs and rethrows
SaveOpenFail ==
  /\ ins.pc = "opening"
  /\ ins' = [ins EXCEPT !.pc = "failed", !.outcome = "error"]
  /\ UNCHANGED <<store, online, facility, reg, qry, pass>>

\* openDatabase resolves: the transaction is created, the id generated
\* (gen: Date.now() and Math.random() may repeat an id), the add requested
SaveOpenOk(gen) ==
  /\ ins.pc = "opening"
  /\ ins' = [ins EXCEPT !.pc = "adding", !.db = "open",
                        !.entry = StoredEntry(ins.arg, gen)]
  /\ UNCHANGED <<store, online, facility, reg, qry, pass>>

\* (mutant: syncWithServer() is called whether online or not)
SaveRequestOk_AlwaysSync ==
  /\ ins.pc = "adding"
  /\ ~HasId(store, ins.entry.id)
  /\ FreePasses # {}
  /\ ins' = [ins EXCEPT !.pc = "requested", !.outcome = "id",
                        !.conn = IF online THEN "online" ELSE "offline",
                        !.trig = {FirstFree}]
  /\ pass' = [pass EXCEPT ![FirstFree] = StartedPass]
  /\ reg' = IF ~online /\ facility /\ reg = "none" THEN "waiting" ELSE reg
  /\ UNCHANGED <<store, online, facility, qry>>

\* (mutant: store.put instead of store.add, a key in use is not rejected)
SaveRequestOk_NoKeyCheck ==
  /\ ins.pc = "adding"
  /\ online => FreePasses # {}
  /\ ins' = [ins EXCEPT !.pc = "requested", !.outcome = "id",
                        !.conn = IF online THEN "online" ELSE "offline",
                        !.trig = IF online THEN {FirstFree} ELSE {}]
  /\ pass' = IF online
             THEN [pass EXCEPT ![FirstFree] = StartedPass]
             ELSE pass
  /\ reg' = IF ~online /\ facility /\ reg = "none" THEN "waiting" ELSE reg
  /\ UNCHANGED <<store, online, facility, qry>>

\* request.onsuccess: the promise resolves with the id, then the sync pass is
\* started (online) or the background sync is requested (offline, when the
\* facility exists).  The transaction has not committed yet.
SaveRequestOk ==
  /\ ins.pc = "adding"
  /\ ~HasId(store, ins.entry.id)
  /\ online => FreePasses # {}
  /\ ins' = [ins EXCEPT !.pc = "requested", !.outcome = "id",
                        !.conn = IF online THEN "online" ELSE "offline",
                        !.trig = IF online THEN {FirstFree} ELSE {}]
  /\ pass' = IF online
             THEN [pass EXCEPT ![FirstFree] = StartedPass]
             ELSE pass
  /\ reg' = IF ~online /\ facility /\ reg = "none" THEN "waiting" ELSE reg
  /\ UNCHANGED <<store, online, facility, qry>>

\* request.onerror (ConstraintError for a key in use, or any other failure of
\* the add): the promise rejects; the transaction aborts, oncomplete never
\* fires, the handle stays open
SaveRequestErr ==
  /\ ins.pc = "adding"
  /\ ins' = [ins EXCEPT !.pc = "failed", !.outcome = "error"]
  /\ UNCHANGED <<store, online, facility, reg, qry, pass>>

\* transaction.oncomplete: the record is committed, db.close()
SaveCommit ==
  /\ ins.pc = "requested"
  /\ store' = AddEntry(store, ins.entry)
  /\ ins' = [ins EXCEPT !.pc = "committed", !.db = "closed"]
  /\ UNCHANGED <<online, facility, reg, qry, pass>>

\* the transaction aborts at commit (quota exceeded, I/O error): the add is
\* rolled back; no handler is attached for it, the handle stays open
SaveAbort ==
  /\ ins.pc = "requested"
  /\ ins' = [ins EXCEPT !.pc = "aborted"]
  /\ UNCHANGED <<store, online, facility, reg, qry, pass>>

\* ---------------------------------------------------------------- getFoodEntries
\* (mutant: the upper bound is inclusive)
InRange_Closed(e, dayStart, dayEnd) ==
  IF dayStart # NoDate /\ dayEnd # NoDate
  THEN e.date >= dayStart /\ e.date <= dayEnd
  ELSE TRUE

\* lines 104-110: the date filter applies when both bounds are supplied
InRange(e, dayStart, dayEnd) ==
  IF dayStart # NoDate /\ dayEnd # NoDate
  THEN e.date >= dayStart /\ e.date < dayEnd
  ELSE TRUE

\* (mutant: store.getAll() instead of the userId index)
QueryResult_AllOwners(s, userId, dayStart, dayEnd) ==
  {e \in s : InRange(e, dayStart, dayEnd)}

\* userIndex.getAll(userId), then the filter
QueryResult(s, userId, dayStart, dayEnd) ==
  {e \in {r \in s : r.userId = userId} : InRange(e, dayStart, dayEnd)}

\* getFoodEntries(userId, dayStart?, dayEnd?) is called: await openDatabase()
QueryCall(userId, dayStart, dayEnd) ==
  /\ qry.pc \in {"idle", "done"}
  /\ qry' = [QryIdle EXCEPT !.pc = "opening", !.userId = userId,
                            !.dayStart = dayStart, !.dayEnd = dayEnd]
  /\ UNCHANGED <<store, online, facility, reg, ins, pass>>

\* openDatabase rejects: the catch logs and returns []
QueryOpenFail ==
  /\ qry.pc = "opening"
  /\ qry' = [qry EXCEPT !.pc = "done", !.outcome = "returned", !.result = {}]
  /\ UNCHANGED <<store, online, facility, reg, ins, pass>>

\* openDatabase resolves: the read-only transaction and the getAll request
QueryOpenOk ==
  /\ qry.pc = "opening"
  /\ qry' = [qry EXCEPT !.pc = "reading", !.db = "open"]
  /\ UNCHANGED <<store, online, facility, reg, ins, pass>>

\* request.onsuccess: resolve(entries); the transaction completes, db.close()
QueryRequestOk ==
  /\ qry.pc = "reading"
  /\ ~WriteTxActive
  /\ qry' = [qry EXCEPT !.pc = "done", !.outcome = "returned", !.db = "closed",
                        !.result = QueryResult(store, qry.userId, qry.dayStart, qry.dayEnd)]
  /\ UNCHANGED <<store, online, facility, reg, ins, pass>>

\* request.onerror: reject(...).  The promise was returned, not awaited, inside
\* the try block, so the catch does not see the rejection: the caller does.
QueryRequestErr ==
  /\ qry.pc = "reading"
  /\ qry' = [qry EXCEPT !.pc = "done", !.outcome = "raised"]
  /\ UNCHANGED <<store, online, facility, reg, ins, pass>>

\* ---------------------------------------------------------------- syncWithServer
\* (mutant: store.getAll() instead of the synced index with key false)
Unsynced_All(s) == s

\* syncIndex.getAll(false)
Unsynced(s) == {r \in s : ~r.synced}

\* (mutant: a single-flight guard, no invocation starts while one is running)
SyncCall_SingleFlight(p) ==
  /\ FreePasses = Passes
  /\ p = FirstFree
  /\ pass' = [pass EXCEPT ![p] = StartedPass]
  /\ ins' = [ins EXCEPT !.trig = ins.trig \ {p}]
  /\ UNCHANGED <<store, online, facility, reg, qry>>

\* an invocation from outside saveFoodEntry (connectivity regained, sync event)
SyncCall(p) ==
  /\ FreePasses # {}
  /\ p = FirstFree
  /\ pass' = [pass EXCEPT ![p] = StartedPass]
  /\ ins' = [ins EXCEPT !.trig = ins.trig \ {p}]
  /\ UNCHANGED <<store, online, facility, reg, qry>>

\* (mutant: the failure of a pass started by saveFoodEntry reaches its caller)
SyncOpenFail_Propagates(p) ==
  /\ pass[p].pc = "opening"
  /\ pass' = [pass EXCEPT ![p].pc = "done", ![p].res = "openfail"]
  /\ ins' = IF p \in ins.trig THEN [ins EXCEPT !.outcome = "error"] ELSE ins
  /\ UNCHANGED <<store, online, facility, reg, qry>>

\* openDatabase rejects: the outer catch logs
SyncOpenFail(p) ==
  /\ pass[p].pc = "opening"
  /\ pass' = [pass EXCEPT ![p].pc = "done", ![p].res = "openfail"]
  /\ UNCHANGED <<store, online, facility, reg, ins, qry>>

\* openDatabase resolves: the transaction and the getAll(false) request
SyncOpenOk(p) ==
  /\ pass[p].pc = "opening"
  /\ pass' = [pass EXCEPT ![p].pc = "scanning", ![p].db = "open"]
  /\ UNCHANGED <<store, online, facility, reg, ins, qry>>

\* (mutant: no outer try/catch, the failure rejects the promise of the pass)
SyncScanFail_Raises(p) ==
  /\ pass[p].pc = "scanning"
  /\ pass' = [pass EXCEPT ![p].pc = "done", ![p].res = "raised"]
  /\ UNCHANGED <<store, online, facility, reg, ins, qry>>

\* the scan fails (request.onerror, or getAll throws): the outer catch logs;
\* db.close() is skipped
SyncScanFail(p) ==
  /\ pass[p].pc = "scanning"
  /\ pass' = [pass EXCEPT ![p].pc = "done", ![p].res = "scanfail"]
  /\ UNCHANGED <<store, online, facility, reg, ins, qry>>

\* the pass after its loop: db.close() and return
Finished(ps) == [ps EXCEPT !.pc = "done", !.db = "closed", !.res = "complete"]

\* the scan succeeds: the snapshot; the loop starts and the first fetch is
\* issued, or the loop is empty and the handle is closed
SyncScanOk(p) ==
  /\ pass[p].pc = "scanning"
  /\ ~WriteTxActive
  /\ LET snap == SortById(Unsynced(store))
     IN pass' = [pass EXCEPT ![p] =
                   IF snap = <<>> THEN Finished(pass[p])
                   ELSE [pass[p] EXCEPT !.pc = "fetching", !.snap = snap]]
  /\ UNCHANGED <<store, online, facility, reg, ins, qry>>

\* outcomes of one iteration of the loop: "ok" (response.ok and the put
\* succeeded), "putfail" (response.ok, the put threw or its transaction
\* aborted; nothing observes it), "rejected" (response not ok), "neterr"
\* (fetch threw, the inner catch logs)
Outcomes == {"ok", "putfail", "rejected", "neterr"}

\* with navigator.onLine false the fetch can only throw
PushOutcomes == IF online THEN Outcomes ELSE {"neterr"}

\* what the pass records of an iteration: a rejected push and a network error
\* both leave the record as it is and go on to the next one
Logged(r) == IF r \in {"rejected", "neterr"} THEN "failed" ELSE r

\* (mutant: response.ok is not tested, a rejected record is marked too)
AfterPush_IgnoreStatus(s, e, r) ==
  IF r \in {"ok", "rejected"} THEN PutEntry(s, [e EXCEPT !.synced = TRUE]) ELSE s

\* (mutant: on a failed push the entry is written back as it was scanned)
AfterPush_WriteBack(s, e, r) ==
  IF r = "ok" THEN PutEntry(s, [e EXCEPT !.synced = TRUE])
  ELSE IF r \in {"rejected", "neterr"} THEN PutEntry(s, e) ELSE s

\* (mutant: line 167 missing, the entry is put as it was read)
AfterPush_NoFlag(s, e, r) ==
  IF r = "ok" THEN PutEntry(s, e) ELSE s

\* lines 163-169: on response.ok the snapshot entry is put with synced = true
AfterPush(s, e, r) ==
  IF r = "ok" THEN PutEntry(s, [e EXCEPT !.synced = TRUE]) ELSE s

\* (mutant: the put is chained on a later event, the next fetch does not wait
\* for it)
SyncResponse_NoWait(p, r) ==
  /\ pass[p].pc = "fetching"
  /\ r \in PushOutcomes
  /\ LET i == Len(pass[p].log) + 1
         log == Append(pass[p].log, Logged(r))
     IN pass' = [pass EXCEPT ![p] =
                   IF i = Len(pass[p].snap)
                   THEN Finished([pass[p] EXCEPT !.log = log])
                   ELSE [pass[p] EXCEPT !.log = log]]
  /\ UNCHANGED <<store, online, facility, reg, ins, qry>>

\* (mutant: no inner try/catch, a failed push ends the pass in the outer catch)
SyncResponse_Abort(p, r) ==
  /\ pass[p].pc = "fetching"
  /\ r \in PushOutcomes
  /\ LET i == Len(pass[p].log) + 1
         log == Append(pass[p].log, Logged(r))
     IN /\ store' = AfterPush(store, pass[p].snap[i], r)
        /\ pass' = [pass EXCEPT ![p] =
                      IF Logged(r) = "failed"
                      THEN [pass[p] EXCEPT !.log = log, !.pc = "done", !.res = "pushfail"]
                      ELSE IF i = Len(pass[p].snap)
                      THEN Finished([pass[p] EXCEPT !.log = log])
                      ELSE [pass[p] EXCEPT !.log = log]]
  /\ UNCHANGED <<online, facility, reg, ins, qry>>

\* the fetch of the current record returns; the next fetch is issued, or the
\* loop ends and the handle is closed
SyncResponse(p, r) ==
  /\ pass[p].pc = "fetching"
  /\ r \in PushOutcomes
  /\ LET i == Len(pass[p].log) + 1
         log == Append(pass[p].log, Logged(r))
     IN /\ store' = AfterPush(store, pass[p].snap[i], r)
        /\ pass' = [pass EXCEPT ![p] =
                      IF i = Len(pass[p].snap)
                      THEN Finished([pass[p] EXCEPT !.log = log])
                      ELSE [pass[p] EXCEPT !.log = log]]
  /\ UNCHANGED <<online, facility, reg, ins, qry>>

\* ---------------------------------------------------------------- environment
\* navigator.onLine changes
SetOnline(b) ==
  /\ online # b
  /\ online' = b
  /\ UNCHANGED <<store, facility, reg, ins, qry, pass>>

\* navigator.serviceWorker.ready resolves: registration.sync.register(tag)
SyncRegister ==
  /\ reg = "waiting"
  /\ reg' = "registered"
  /\ UNCHANGED <<store, online, facility, ins, qry, pass>>

\* ---------------------------------------------------------------- specifications
\* The synchronisation specification: every operation of the store and of the
\* sync pass with all ids; the payload fields are fixed (one owner, one date),
\* the caller supplies no synced value and the background-sync facility is
\* absent.
SyncArgs ==
  {a \in EntryArgs : a.userId = "u1" /\ a.date = 0 /\ a.synced = "absent"}

Next ==
  \/ \E arg \in SyncArgs : SaveCall(arg)
  \/ SaveOpenFail
  \/ \E gen \in Ids : SaveOpenOk(gen)
  \/ SaveRequestOk
  \/ SaveRequestErr
  \/ SaveCommit
  \/ SaveAbort
  \/ \E p \in Passes : SyncCall(p)
  \/ \E p \in Passes : SyncOpenFail(p)
  \/ \E p \in Passes : SyncOpenOk(p)
  \/ \E p \in Passes : SyncScanFail(p)
  \/ \E p \in Passes : SyncScanOk(p)
  \/ \E p \in Passes, r \in Outcomes : SyncResponse(p, r)
  \/ \E b \in BOOLEAN : SetOnline(b)

Spec == Init /\ [][Next]_vars

\* The insert specification: the same operations with every field and every
\* caller-supplied synced value, with and without the background-sync
\* facility; all records share one id (the first) and one date, so a second
\* insert of a stored record is a duplicate.
FirstId == Min(Ids)

SaveArgs == {a \in EntryArgs : a.id \in {NoId, FirstId} /\ a.date = 0}

InitSave ==
  /\ store = {}
  /\ online \in BOOLEAN
  /\ facility \in BOOLEAN
  /\ reg = "none"
  /\ ins = InsIdle
  /\ qry = QryIdle
  /\ pass = [p \in Passes |-> PassIdle]

NextSave ==
  \/ \E arg \in SaveArgs : SaveCall(arg)
  \/ SaveOpenFail
  \/ SaveOpenOk(FirstId)
  \/ SaveRequestOk
  \/ SaveRequestErr
  \/ SaveCommit
  \/ SaveAbort
  \/ \E p \in Passes : SyncCall(p)
  \/ \E p \in Passes : SyncOpenFail(p)
  \/ \E p \in Passes : SyncOpenOk(p)
  \/ \E p \in Passes : SyncScanFail(p)
  \/ \E p \in Passes : SyncScanOk(p)
  \/ \E p \in Passes, r \in Outcomes : SyncResponse(p, r)
  \/ \E b \in BOOLEAN : SetOnline(b)
  \/ SyncRegister

SpecSave == InitSave /\ [][NextSave]_vars

\* The liveness specification: connectivity stays present, the remote authority
\* accepts every push and every call returns; every operation that has started
\* takes its next step (the event loop delivers every pending event).
Accepted == {"ok", "putfail"}

InitLive ==
  /\ store = {}
  /\ online = TRUE
  /\ facility = FALSE
  /\ reg = "none"
  /\ ins = InsIdle
  /\ qry = QryIdle
  /\ pass = [p \in Passes |-> PassIdle]

SaveStep ==
  \/ SaveOpenFail
  \/ \E gen \in Ids : SaveOpenOk(gen)
  \/ SaveRequestOk
  \/ SaveRequestErr
  \/ SaveCommit
  \/ SaveAbort

SyncStep(p) ==
  \/ SyncOpenFail(p)
  \/ SyncOpenOk(p)
  \/ SyncScanFail(p)
  \/ SyncScanOk(p)
  \/ \E r \in Accepted : SyncResponse(p, r)

NextLive ==
  \/ \E arg \in SyncArgs : SaveCall(arg)
  \/ SaveStep
  \/ \E p \in Passes : SyncCall(p)
  \/ \E p \in Passes : SyncStep(p)

SpecLive ==
  /\ InitLive
  /\ [][NextLive]_vars
  /\ WF_vars(SaveStep)
  /\ \A p \in Passes : WF_vars(SyncStep(p))

\* The query specification: getFoodEntries on every store the program can
\* hold (any set of records with distinct ids, synced or not).
Fields == [userId : Users, date : Dates, name : Names, synced : BOOLEAN]

Stores ==
  UNION {{{[id |-> i, userId |-> f[i].userId, date |-> f[i].date,
            name |-> f[i].name, synced |-> f[i].synced] : i \in D}
          : f \in [D -> Fields]} : D \in SUBSET Ids}

InitQuery ==
  /\ store \in Stores
  /\ online = TRUE
  /\ facility = FALSE
  /\ reg = "none"
  /\ ins = InsIdle
  /\ qry = QryIdle
  /\ pass = [p \in Passes |-> PassIdle]

NextQuery ==
  \/ \E u \in Users, s, e \in Dates \cup {NoDate} : QueryCall(u, s, e)
  \/ QueryOpenFail
  \/ QueryOpenOk
  \/ QueryRequestOk
  \/ QueryRequestErr

SpecQuery == InitQuery /\ [][NextQuery]_vars

\* ---------------------------------------------------------------- properties
Synced(e) == [e EXCEPT !.synced = TRUE]

\* a pass that ran its loop to the end
Completed(p) == pass[p].pc = "done" /\ pass[p].res = "complete"

\* the remote authority accepted every push of the pass
AllAccepted(p) == \A i \in 1..Len(pass[p].log) : pass[p].log[i] \in {"ok", "putfail"}

\* C1: the record a successful insert commits is the caller's record with
\* synced = false, whatever synced value (true, false, absent) was supplied.
C1_InsertStoresUnsynced ==
  [][(ins.pc = "requested" /\ ins'.pc = "committed")
       => /\ HasId(store', ins.entry.id)
          /\ ById(store', ins.entry.id) =
               [id |-> ins.entry.id, userId |-> ins.arg.userId,
                date |-> ins.arg.date, name |-> ins.arg.name, synced |-> FALSE]]_vars

C1_Witness ==
  /\ ins.pc = "committed"
  /\ ins.arg.synced = "true"
  /\ HasId(store, ins.entry.id)
  /\ ~ById(store, ins.entry.id).synced

\* C2: once the write transaction of an insert has settled: if it aborted the
\* caller has received an error and no id, and if the caller has received an
\* id the record with that id is in the store.
C2_IdOnlyAfterCommit ==
  /\ ins.pc = "aborted" => ins.outcome = "error"
  /\ (ins.outcome = "id" /\ ins.pc # "requested") => HasId(store, ins.entry.id)

C5_OfflineSyncIsNoOp ==
  [][\A p \in Passes :
       (pass[p].pc \in {"idle", "done"} /\ pass'[p] # pass[p] /\ ~online)
         => /\ pass'[p] = [PassIdle EXCEPT !.pc = "done", !.res = "offline"]
            /\ store' = store]_vars

C5_Witness ==
  \E p \in Passes :
    /\ pass[p].pc = "done"
    /\ pass[p].res = "offline"
    /\ pass[p].db = "none"
    /\ ~online
    /\ Unsynced(store) # {}

\* C6: a query without a range whose read succeeds returns exactly the stored
\* records of the owner asked for.
C6_QueryByOwner ==
  (/\ qry.pc = "done"
   /\ qry.db = "closed"
   /\ qry.dayStart = NoDate
   /\ qry.dayEnd = NoDate)
    => /\ qry.outcome = "returned"
       /\ qry.result = {r \in store : r.userId = qry.userId}

C6_Witness ==
  /\ qry.pc = "done"
  /\ qry.db = "closed"
  /\ qry.dayStart = NoDate
  /\ qry.dayEnd = NoDate
  /\ qry.result # {}
  /\ \E r \in store : r.userId # qry.userId

\* C7: a query with both bounds whose read succeeds returns exactly the owner's
\* records with dayStart <= date < dayEnd.
C7_QueryHalfOpenRange ==
  (/\ qry.pc = "done"
   /\ qry.db = "closed"
   /\ qry.dayStart # NoDate
   /\ qry.dayEnd # NoDate)
    => /\ qry.outcome = "returned"
       /\ qry.result =
            {r \in store : /\ r.userId = qry.userId
                           /\ qry.dayStart <= r.date
                           /\ r.date < qry.dayEnd}

C7_Witness ==
  /\ qry.pc = "done"
  /\ qry.db = "closed"
  /\ qry.dayStart # NoDate
  /\ qry.dayEnd # NoDate
  /\ \E r \in qry.result : r.date = qry.dayStart
  /\ \E r \in store : r.userId = qry.userId /\ r.date = qry.dayEnd /\ r \notin qry.result

\* C8: a finished query has returned to its caller, and when the open or the
\* read failed it has returned the empty sequence.
C8_QueryNeverRaises ==
  qry.pc = "done"
    => /\ qry.outcome = "returned"
       /\ qry.db # "closed" => qry.result = {}

\* C9: a successful insert while online returns the id and starts a sync pass,
\* and from then on no step of that pass, whatever its outcome, changes what the
\* insert returned.
C9_InsertIndependentOfSync ==
  [][/\ (ins.pc = "adding" /\ ins'.pc = "requested" /\ online)
          => /\ ins'.outcome = "id"
             /\ \E p \in Passes : /\ pass[p].pc \in {"idle", "done"}
                                  /\ pass'[p].pc = "opening"
                                  /\ ins'.trig = {p}
     /\ (ins.outcome = "id" /\ ins'.pc # "opening") => ins'.outcome = "id"]_vars

C9_Witness ==
  /\ ins.outcome = "id"
  /\ ins.conn = "online"
  /\ \E p \in ins.trig : pass[p].pc = "done" /\ pass[p].res = "openfail"

\* C10: a successful insert while offline returns the id, starts no sync pass
\* and issues no fetch; the background sync is requested exactly when the
\* facility is present.
C10_OfflineInsert ==
  [][(ins.pc = "adding" /\ ins'.pc = "requested" /\ ~online)
       => /\ ins'.outcome = "id"
          /\ pass' = pass
          /\ facility => reg' \in {"waiting", "registered"}
          /\ ~facility => reg' = "none"]_vars

C10_Witness ==
  /\ ins.pc = "committed"
  /\ ins.outcome = "id"
  /\ ins.conn = "offline"
  /\ ~facility
  /\ reg = "none"
  /\ \A p \in Passes : pass[p].pc = "idle"

\* the step is an iteration of the loop of pass p: its fetch returned
Iterates(p) ==
  /\ pass[p].pc = "fetching"
  /\ Len(pass'[p].log) = Len(pass[p].log) + 1

\* C11: once an operation has finished, the handle it opened is not open.
C11_HandlesReleased ==
  /\ ins.pc \in {"committed", "aborted", "failed"} => ins.db # "open"
  /\ qry.pc = "done" => qry.db # "open"
  /\ \A p \in Passes : pass[p].pc = "done" => pass[p].db # "open"

\* C12: every invocation of syncWithServer that has finished returned normally,
\* whether the open failed, the scan failed, a push failed or a synced-flag
\* write failed.
C12_SyncNeverRaises ==
  \A p \in Passes :
    pass[p].pc = "done"
      => /\ pass[p].res \in {"offline", "openfail", "scanfail", "complete"}
         /\ (\E i \in 1..Len(pass[p].log) : pass[p].log[i] \in {"failed", "putfail"})
              => pass[p].res = "complete"

C12_Witness ==
  \E p, q \in Passes :
    /\ Completed(p)
    /\ \E i \in 1..Len(pass[p].log) : pass[p].log[i] = "failed"
    /\ \E i \in 1..Len(pass[p].log) : pass[p].log[i] = "putfail"
    /\ pass[q].pc = "done"
    /\ pass[q].res \in {"openfail", "scanfail"}

\* C13: a record becomes synced only in the step in which a push of that record
\* returns a success response (inserts store synced = false).
C13_SyncedOnlyWhenAccepted ==
  [][\A r \in store' :
       (r.synced /\ r \notin store)
         => \E p \in Passes :
              /\ Iterates(p)
              /\ pass[p].snap[Len(pass'[p].log)].id = r.id
              /\ pass'[p].log[Len(pass'[p].log)] = "ok"]_vars

C13_Witness ==
  \E p \in Passes :
    /\ Completed(p)
    /\ Len(pass[p].snap) >= 2
    /\ pass[p].log[1] = "ok"
    /\ Synced(pass[p].snap[1]) \in store
    /\ pass[p].log[2] = "failed"
    /\ pass[p].snap[2] \in store

\* C14: a stored record that is synced is synced after every step.
C14_SyncedIsMonotonic ==
  [][\A r \in store :
       r.synced => /\ HasId(store', r.id)
                   /\ \A n \in store' : n.id = r.id => n.synced]_vars

\* a synced record survives a rejected insert of its id and the failed push of
\* an overlapping pass that scanned it unsynced
C14_Witness ==
  \E r \in store, p \in Passes :
    /\ r.synced
    /\ ins.pc = "failed"
    /\ ins.entry.id = r.id
    /\ pass[p].pc = "done"
    /\ \E i \in 1..Len(pass[p].log) :
         pass[p].snap[i].id = r.id /\ pass[p].log[i] = "failed"

C16_IdsUnique ==
  /\ [](\A a, b \in store : a.id = b.id => a = b)
  /\ [][(ins.pc = "adding" /\ HasId(store, ins.entry.id) /\ ins'.pc # "adding")
          => /\ ins'.pc = "failed"
             /\ ins'.outcome = "error"
             /\ store' = store]_vars

C16_Witness ==
  /\ ins.pc = "failed"
  /\ ins.outcome = "error"
  /\ HasId(store, ins.entry.id)
  /\ ById(store, ins.entry.id).synced

\* the record whose push is in flight in pass p
Current(p) == pass[p].snap[Len(pass[p].log) + 1]

\* C17: a pass pushes the records of its snapshot one at a time in scan order:
\* while it fetches, exactly one record (the next of the snapshot) is in
\* flight; an iteration adds one entry to the log and, when the push was
\* accepted and written, the record is marked before the next fetch starts; a
\* completed pass has pushed every record of the snapshot once.
C17_SequentialPushes ==
  /\ [](\A p \in Passes :
          /\ pass[p].pc = "fetching" => Len(pass[p].log) < Len(pass[p].snap)
          /\ Completed(p) => Len(pass[p].log) = Len(pass[p].snap)
          /\ \A i, j \in 1..Len(pass[p].snap) :
               i < j => pass[p].snap[i].id < pass[p].snap[j].id)
  /\ [][\A p \in Passes :
          pass[p].pc = "fetching"
            => /\ pass'[p].snap = pass[p].snap
               /\ \E x \in {"ok", "putfail", "failed"} :
                    /\ pass'[p].log \in {pass[p].log, Append(pass[p].log, x)}
                    /\ pass'[p].log # pass[p].log /\ x = "ok"
                         => Synced(Current(p)) \in store']_vars

C17_Witness ==
  \E p \in Passes :
    /\ pass[p].pc = "fetching"
    /\ Len(pass[p].snap) >= 2
    /\ pass[p].log = <<"ok">>
    /\ Synced(pass[p].snap[1]) \in store
    /\ Current(p) = pass[p].snap[2]

C19_NoMutualExclusion ==
  \A p, q \in Passes :
    (p # q /\ pass[p].pc \in {"opening", "scanning", "fetching"})
      => /\ pass[q].pc \in {"idle", "done"} => ENABLED SyncCall(q)
         /\ pass[q].pc = "opening" => ENABLED SyncOpenOk(q)
         /\ (pass[q].pc = "scanning" /\ ~WriteTxActive) => ENABLED SyncScanOk(q)

C19_Witness ==
  \E p, q \in Passes :
    /\ p # q
    /\ pass[p].pc = "fetching"
    /\ pass[q].pc = "fetching"
    /\ Current(p) = Current(q)

\* C20: with connectivity present throughout, every push accepted and every
\* call returning, a record inserted successfully is eventually synced.
C20_EventuallySynced ==
  \A i \in Ids :
    (ins.pc = "committed" /\ ins.conn = "online" /\ ins.entry.id = i)
      ~> (\E r \in store : r.id = i /\ r.synced)

====
